---- MODULE Spec2Model ----
(***************************************************************************)
(* Prediction lifecycle of pick5: the prediction view (MatchPrediction),   *)
(* the match list (Dashboard) and the admin player page (ManagePlayers),   *)
(* all working on one document store (matches, players, predictions).      *)
(***************************************************************************)
EXTENDS Integers, Sequences, FiniteSets, TLC

\* ------------------------------------------------------------------ bounds
NumViews == 2        \* prediction-view sessions (browser tabs) of the user
MaxTime == 2         \* the clock runs over 0..MaxTime
MaxChoice == 1       \* a click picks among the first MaxChoice cards of a list
ExtraPlayers == 1    \* eligible players beyond the five that fit a selection
MaxPts == 1          \* outcomes an administrator records are in 0..MaxPts

\* ------------------------------------------------------- program constants
MaxSelected == 5

\* ------------------------------------------------------------------ values
Undef == 0 - 1                     \* a field that is absent from its object
ExplicitUndef == 0 - 2             \* a field written out as `undefined`
NoId == 0                          \* existingPredictionId = null
NoMatch == 0                       \* match = null / no :matchId in the route
NoUser == "null"                   \* user = null
Views == 1..NumViews
MatchIds == {1, 2}
UserIds == {"u1"}
PredIds == 1..NumViews
NumEligible == MaxSelected + ExtraPlayers
PlayerIds == 1..(NumEligible + 1)

VARIABLES
    now,          \* new Date()
    matches,      \* store collection matches/{id}
    players,      \* store collection players/{id}
    predictions,  \* store collection predictions/{id}
    view,         \* the MatchPrediction component of each session
    dash,         \* the Dashboard component
    admin         \* the ManagePlayers component

vars == <<now, matches, players, predictions, view, dash, admin>>

\* ---------------------------------------------------------------- helpers
Range(s) == {s[i] : i \in 1..Len(s)}

RECURSIVE SetToSeq(_)
\* A set of ids as the list the store returns it in (ordered by document id).
SetToSeq(S) ==
    IF S = {} THEN <<>>
    ELSE LET x == CHOOSE y \in S : \A z \in S : y <= z
         IN  <<x>> \o SetToSeq(S \ {x})

\* Array.prototype.filter
FilterSeq(s, Keep(_)) == SelectSeq(s, Keep)

\* ------------------------------------------------------------------- store
InitTarget(p) ==
    [type |-> IF p = 2 THEN "wickets" ELSE "runs",
     target |-> 1,
     actualPoints |-> IF p = 2 THEN 1 ELSE IF p = 3 THEN 0 ELSE Undef,
     isSelected |-> TRUE]

InitPlayer(p) ==
    [name |-> "a",
     team |-> "t",
     role |-> IF p = 2 THEN "bowler" ELSE "batsman",
     matchTargets |-> IF p <= NumEligible
                      THEN [m \in {1} |-> InitTarget(p)]
                      ELSE [m \in {} |-> InitTarget(p)]]

InitMatches ==
    [m \in MatchIds |-> [timestamp |-> IF m = 1 THEN 1 ELSE MaxTime,
                         status |-> "scheduled"]]

\* ---------------------------------------------------- MatchPrediction view
InitView ==
    [pc |-> "unmounted",
     matchId |-> NoMatch,
     user |-> NoUser,
     match |-> NoMatch,
     loading |-> TRUE,
     error |-> "null",
     selectedPlayers |-> <<>>,
     availablePlayers |-> <<>>,
     submitting |-> FALSE,
     existingPredictionId |-> NoId,
     matchStarted |-> FALSE,
     correctPredictions |-> 0,
     allPlayers |-> [p \in {} |-> InitPlayer(p)],
     writes |-> <<>>]

\* ------------------------------------------------------------- Dashboard
InitDash ==
    [pc |-> "unmounted",
     user |-> NoUser,
     matches |-> <<>>,
     predictions |-> <<>>,
     loading |-> TRUE]

\* --------------------------------------------------------- ManagePlayers
InitAdmin ==
    [pc |-> "unmounted",
     players |-> [p \in {} |-> InitPlayer(p)],
     loading |-> TRUE,
     fetchingPlayers |-> FALSE,
     fetchingMatches |-> FALSE,
     editingPlayer |-> [id |-> NoId],
     editingTargets |-> [p \in {} |-> InitTarget(p)],
     selectedMatch |-> NoMatch,
     matches |-> <<>>]

Init ==
    /\ now = 0
    /\ matches = InitMatches
    /\ players = [p \in PlayerIds |-> InitPlayer(p)]
    /\ predictions = [i \in {} |-> 0]
    /\ view = [v \in Views |-> InitView]
    /\ dash = InitDash
    /\ admin = InitAdmin

\* The clock advances.
Tick ==
    /\ now < MaxTime
    /\ now' = now + 1
    /\ UNCHANGED <<matches, players, predictions, view, dash, admin>>

\* Mutant of Mount: the identifiers are not checked before the first read.
Mount_NoIdCheck(v, m, u) ==
    /\ view[v].pc = "unmounted"
    /\ view' = [view EXCEPT ![v] =
                  [@ EXCEPT !.pc = "fetchMatch", !.matchId = m, !.user = u]]
    /\ UNCHANGED <<now, matches, players, predictions, dash, admin>>

\* fetchData, up to the first await: the identifiers are checked and the match
\* document is requested.
Mount(v, m, u) ==
    /\ view[v].pc = "unmounted"
    /\ view' = [view EXCEPT ![v] =
                  IF m = NoMatch \/ u = NoUser
                  THEN [@ EXCEPT !.pc = "error", !.matchId = m, !.user = u,
                                 !.error = "Match ID and user are required",
                                 !.loading = FALSE]
                  ELSE [@ EXCEPT !.pc = "fetchMatch", !.matchId = m, !.user = u]]
    /\ UNCHANGED <<now, matches, players, predictions, dash, admin>>

\* Mutant of HasStarted: the boundary instant is still open.
HasStarted_Strict(t, ts) == t > ts

\* new Date() >= matchData.timestamp
HasStarted(t, ts) == t >= ts

\* The match document arrives: not found, or the lock is decided.
FetchMatch(v) ==
    /\ view[v].pc = "fetchMatch"
    /\ view' = [view EXCEPT ![v] =
                  IF view[v].matchId \notin DOMAIN matches
                  THEN [@ EXCEPT !.pc = "error", !.error = "Match not found",
                                 !.loading = FALSE]
                  ELSE [@ EXCEPT !.pc = "fetchPlayers",
                                 !.matchStarted =
                                     HasStarted(now, matches[view[v].matchId].timestamp),
                                 !.match = view[v].matchId]]
    /\ UNCHANGED <<now, matches, players, predictions, dash, admin>>

\* The players collection arrives.
FetchPlayers(v) ==
    /\ view[v].pc = "fetchPlayers"
    /\ view' = [view EXCEPT ![v] =
                  [@ EXCEPT !.pc = "fetchPredictions", !.allPlayers = players]]
    /\ UNCHANGED <<now, matches, players, predictions, dash, admin>>

\* Mutant of HasTarget: the Target also has to be flagged eligible.
HasTarget_Eligible(pl, m) ==
    /\ m \in DOMAIN pl.matchTargets
    /\ pl.matchTargets[m].isSelected

\* player.matchTargets && player.matchTargets[matchId]
HasTarget(pl, m) == m \in DOMAIN pl.matchTargets

\* allPlayers.filter(player => ... matchTargets[matchId]), in store order
PlayersWithTargets(all, m) ==
    FilterSeq(SetToSeq(DOMAIN all), LAMBDA p : HasTarget(all[p], m))

\* query(predictions, where userId == u, where matchId == m), in store order
PredictionsQuery(u, m) ==
    FilterSeq(SetToSeq(DOMAIN predictions),
              LAMBDA i : predictions[i].userId = u /\ predictions[i].matchId = m)

\* Mutant of IsCorrect: the threshold has to be exceeded.
IsCorrect_Strict(tg) ==
    IF tg.actualPoints # Undef
    THEN (IF tg.actualPoints > tg.target THEN 1 ELSE 0)
    ELSE 0

\* target.actualPoints !== undefined ? (actualPoints >= target ? 1 : 0) : 0
IsCorrect(tg) ==
    IF tg.actualPoints # Undef
    THEN (IF tg.actualPoints >= tg.target THEN 1 ELSE 0)
    ELSE 0

RECURSIVE CountCorrect(_, _, _)
\* selectedPlayers.reduce over the players' loaded targets for the match
CountCorrect(sel, all, m) ==
    IF sel = <<>> THEN 0
    ELSE CountCorrect(SubSeq(sel, 1, Len(sel) - 1), all, m)
         + IsCorrect(all[sel[Len(sel)]].matchTargets[m])

\* Mutant of FetchFail: the error is set but loading is not cleared.
FetchFail_KeepLoading(v) ==
    /\ view[v].pc \in {"fetchMatch", "fetchPlayers", "fetchPredictions"}
    /\ view' = [view EXCEPT ![v] =
                  [@ EXCEPT !.pc = "error", !.error = "Failed to load match data"]]
    /\ UNCHANGED <<now, matches, players, predictions, dash, admin>>

\* A store read of fetchData fails: catch, then finally.
FetchFail(v) ==
    /\ view[v].pc \in {"fetchMatch", "fetchPlayers", "fetchPredictions"}
    /\ view' = [view EXCEPT ![v] =
                  [@ EXCEPT !.pc = "error", !.error = "Failed to load match data",
                            !.loading = FALSE]]
    /\ UNCHANGED <<now, matches, players, predictions, dash, admin>>

\* The user's prediction for the match arrives; the two lists are set.
FetchPredictions(v) ==
    /\ view[v].pc = "fetchPredictions"
    /\ LET m == view[v].matchId
           pwt == PlayersWithTargets(view[v].allPlayers, m)
           snap == PredictionsQuery(view[v].user, m)
       IN  view' = [view EXCEPT ![v] =
             IF snap # <<>>
             THEN LET doc == predictions[snap[1]]
                      ids == {doc.selectedPlayers[i].id :
                                 i \in 1..Len(doc.selectedPlayers)}
                      sel == FilterSeq(pwt, LAMBDA p : p \in ids)
                  IN  [@ EXCEPT !.pc = "ready", !.loading = FALSE,
                                !.existingPredictionId = snap[1],
                                !.selectedPlayers = sel,
                                !.availablePlayers =
                                    FilterSeq(pwt, LAMBDA p : p \notin ids),
                                !.correctPredictions =
                                    IF view[v].matchStarted
                                    THEN CountCorrect(sel, view[v].allPlayers, m)
                                    ELSE 0]
             ELSE [@ EXCEPT !.pc = "ready", !.loading = FALSE,
                            !.availablePlayers = pwt]]
    /\ UNCHANGED <<now, matches, players, predictions, dash, admin>>

\* The component renders its main view (no spinner, no error page, a match).
Rendered(v) ==
    /\ view[v].pc = "ready"
    /\ ~view[v].loading
    /\ view[v].error = "null"
    /\ view[v].match # NoMatch

\* The cards a click can land on: the first MaxChoice entries of a rendered list.
ClickChoices(list, k) ==
    {list[i] : i \in 1..(IF Len(list) < k THEN Len(list) ELSE k)}

\* Mutant of HandlePlayerSelect: the player stays in the available list.
HandlePlayerSelect_KeepAvailable(v, p) ==
    /\ Rendered(v)
    /\ IF Len(view[v].selectedPlayers) >= MaxSelected \/ view[v].matchStarted
       THEN UNCHANGED view
       ELSE view' = [view EXCEPT ![v] =
              [@ EXCEPT !.selectedPlayers = Append(@, p)]]
    /\ UNCHANGED <<now, matches, players, predictions, dash, admin>>

\* Mutant of HandlePlayerSelect: the count of selected players is not checked.
HandlePlayerSelect_NoLimit(v, p) ==
    /\ Rendered(v)
    /\ IF view[v].matchStarted
       THEN UNCHANGED view
       ELSE view' = [view EXCEPT ![v] =
              [@ EXCEPT !.selectedPlayers = Append(@, p),
                        !.availablePlayers = FilterSeq(@, LAMBDA q : q # p)]]
    /\ UNCHANGED <<now, matches, players, predictions, dash, admin>>

\* handlePlayerSelect(player)
HandlePlayerSelect(v, p) ==
    /\ Rendered(v)
    /\ IF Len(view[v].selectedPlayers) >= MaxSelected \/ view[v].matchStarted
       THEN UNCHANGED view
       ELSE view' = [view EXCEPT ![v] =
              [@ EXCEPT !.selectedPlayers = Append(@, p),
                        !.availablePlayers = FilterSeq(@, LAMBDA q : q # p)]]
    /\ UNCHANGED <<now, matches, players, predictions, dash, admin>>

\* handlePlayerRemove(player)
HandlePlayerRemove(v, p) ==
    /\ Rendered(v)
    /\ IF view[v].matchStarted
       THEN UNCHANGED view
       ELSE view' = [view EXCEPT ![v] =
              [@ EXCEPT !.selectedPlayers = FilterSeq(@, LAMBDA q : q # p),
                        !.availablePlayers = Append(@, p)]]
    /\ UNCHANGED <<now, matches, players, predictions, dash, admin>>

\* getPlayerTarget(player), spread into the entry after id, name and team
SnapshotEntry(p, pl, m) ==
    IF HasTarget(pl, m)
    THEN [id |-> p, name |-> pl.name, team |-> pl.team,
          type |-> pl.matchTargets[m].type,
          target |-> pl.matchTargets[m].target,
          actualPoints |-> pl.matchTargets[m].actualPoints,
          isSelected |-> pl.matchTargets[m].isSelected]
    ELSE [id |-> p, name |-> pl.name, team |-> pl.team]

\* predictionData of handleSubmit
PredictionData(v) ==
    [userId |-> view[v].user,
     matchId |-> view[v].match,
     selectedPlayers |->
         [i \in 1..Len(view[v].selectedPlayers) |->
             SnapshotEntry(view[v].selectedPlayers[i],
                           view[v].allPlayers[view[v].selectedPlayers[i]],
                           view[v].matchId)],
     updatedAt |-> now,
     status |-> "pending"]

\* Mutant of SubmitAccepted: any non-empty selection is accepted.
SubmitAccepted_AnyCount(v) ==
    /\ view[v].match # NoMatch
    /\ Len(view[v].selectedPlayers) > 0
    /\ view[v].user # NoUser
    /\ ~view[v].submitting
    /\ ~view[v].matchStarted

\* The condition under which handleSubmit goes on past its first line.
SubmitAccepted(v) ==
    /\ view[v].match # NoMatch
    /\ Len(view[v].selectedPlayers) = MaxSelected
    /\ view[v].user # NoUser
    /\ ~view[v].submitting
    /\ ~view[v].matchStarted

\* Mutant of HandleSubmit: the write is always an addDoc.
HandleSubmit_AlwaysAdd(v) ==
    /\ Rendered(v)
    /\ IF SubmitAccepted(v)
       THEN view' = [view EXCEPT ![v] =
              [@ EXCEPT !.submitting = TRUE,
                        !.writes = Append(@, [id |-> NoId,
                                              data |-> PredictionData(v)])]]
       ELSE UNCHANGED view
    /\ UNCHANGED <<now, matches, players, predictions, dash, admin>>

\* Mutant of HandleSubmit: a submission in flight does not stop the next one.
HandleSubmit_NoInFlightCheck(v) ==
    /\ Rendered(v)
    /\ IF /\ view[v].match # NoMatch
          /\ Len(view[v].selectedPlayers) = MaxSelected
          /\ view[v].user # NoUser
          /\ ~view[v].matchStarted
       THEN view' = [view EXCEPT ![v] =
              [@ EXCEPT !.submitting = TRUE,
                        !.writes = Append(@, [id |-> view[v].existingPredictionId,
                                              data |-> PredictionData(v)])]]
       ELSE UNCHANGED view
    /\ UNCHANGED <<now, matches, players, predictions, dash, admin>>

\* handleSubmit, up to its await: the write is issued (setDoc on the known id,
\* else addDoc).
HandleSubmit(v) ==
    /\ Rendered(v)
    /\ IF SubmitAccepted(v)
       THEN view' = [view EXCEPT ![v] =
              [@ EXCEPT !.submitting = TRUE,
                        !.writes = Append(@, [id |-> view[v].existingPredictionId,
                                              data |-> PredictionData(v)])]]
       ELSE UNCHANGED view
    /\ UNCHANGED <<now, matches, players, predictions, dash, admin>>

\* The store executes a write of handleSubmit and the await returns:
\* navigate('/dashboard') leaves the route, which unmounts the component and
\* drops its state.
WriteDone(v) ==
    /\ view[v].writes # <<>>
    /\ LET w == Head(view[v].writes)
       IN  \E i \in PredIds :
             /\ IF w.id # NoId THEN i = w.id ELSE i \notin DOMAIN predictions
             /\ predictions' = [j \in DOMAIN predictions \cup {i} |->
                                   IF j = i THEN w.data ELSE predictions[j]]
    /\ view' = [view EXCEPT ![v] =
                  [InitView EXCEPT !.writes = Tail(view[v].writes)]]
    /\ UNCHANGED <<now, matches, players, dash, admin>>

\* Mutant of WriteFail: the rejected write is issued again.
WriteFail_Retry(v) ==
    /\ view[v].writes # <<>>
    /\ view' = [view EXCEPT ![v] =
                  [@ EXCEPT !.writes = Append(Tail(@), Head(@)),
                            !.error = "Failed to save prediction"]]
    /\ UNCHANGED <<now, matches, players, predictions, dash, admin>>

\* The store rejects a write of handleSubmit: catch, then finally.
WriteFail(v) ==
    /\ view[v].writes # <<>>
    /\ view' = [view EXCEPT ![v] =
                  [@ EXCEPT !.writes = Tail(@), !.error = "Failed to save prediction",
                            !.submitting = FALSE]]
    /\ UNCHANGED <<now, matches, players, predictions, dash, admin>>

\* "Back to Dashboard" on the error page: navigate('/dashboard') leaves the
\* route, which unmounts the component and drops its state.
BackToDashboard(v) ==
    /\ view[v].pc # "unmounted"
    /\ ~view[v].loading
    /\ view[v].error # "null"
    /\ view' = [view EXCEPT ![v] = [InitView EXCEPT !.writes = view[v].writes]]
    /\ UNCHANGED <<now, matches, players, predictions, dash, admin>>

\* ------------------------------------------------------------- Dashboard
\* Dashboard mounts: fetchData requests the matches.
DashMount(u) ==
    /\ dash.pc = "unmounted"
    /\ dash' = [InitDash EXCEPT !.pc = "fetchMatches", !.user = u]
    /\ UNCHANGED <<now, matches, players, predictions, view, admin>>

RECURSIVE SortDesc(_)
\* orderBy('timestamp', 'desc'), ties in document-id order
SortDesc(S) ==
    IF S = {} THEN <<>>
    ELSE LET x == CHOOSE y \in S : \A z \in S :
                      \/ matches[y].timestamp > matches[z].timestamp
                      \/ matches[y].timestamp = matches[z].timestamp /\ y <= z
         IN  <<x>> \o SortDesc(S \ {x})

\* The matches arrive (with the players fetched per match, which no card reads);
\* the user's predictions are requested, or loading ends when there is no user.
DashFetchMatches ==
    /\ dash.pc = "fetchMatches"
    /\ dash' = IF dash.user = NoUser
               THEN [dash EXCEPT !.pc = "ready", !.loading = FALSE,
                                 !.matches = SortDesc(DOMAIN matches)]
               ELSE [dash EXCEPT !.pc = "fetchPredictions",
                                 !.matches = SortDesc(DOMAIN matches)]
    /\ UNCHANGED <<now, matches, players, predictions, view, admin>>

\* query(predictions, where userId == u) with each document's id
UserPredictions(u) ==
    LET ids == FilterSeq(SetToSeq(DOMAIN predictions),
                         LAMBDA i : predictions[i].userId = u)
    IN  [k \in 1..Len(ids) |-> [id |-> ids[k], doc |-> predictions[ids[k]]]]

\* The user's predictions arrive.
DashFetchPredictions ==
    /\ dash.pc = "fetchPredictions"
    /\ dash' = [dash EXCEPT !.pc = "ready", !.loading = FALSE,
                            !.predictions = UserPredictions(dash.user)]
    /\ UNCHANGED <<now, matches, players, predictions, view, admin>>

\* A store read of the dashboard fails: catch logs, finally ends loading.
DashFetchFail ==
    /\ dash.pc \in {"fetchMatches", "fetchPredictions"}
    /\ dash' = [dash EXCEPT !.pc = "ready", !.loading = FALSE]
    /\ UNCHANGED <<now, matches, players, predictions, view, admin>>

\* The user leaves the dashboard.
DashUnmount ==
    /\ dash.pc = "ready"
    /\ dash' = InitDash
    /\ UNCHANGED <<now, matches, players, predictions, view, admin>>

\* One step of getCorrectPredictions' reduce, on a stored selectedPlayers entry.
EntryCorrect(e) ==
    IF "actualPoints" \in DOMAIN e /\ e.actualPoints # Undef
       /\ e.actualPoints >= e.target
    THEN 1 ELSE 0

RECURSIVE GetCorrectPredictions(_)
\* getCorrectPredictions(prediction), given prediction.selectedPlayers
GetCorrectPredictions(sp) ==
    IF sp = <<>> THEN 0
    ELSE GetCorrectPredictions(SubSeq(sp, 1, Len(sp) - 1)) + EntryCorrect(sp[Len(sp)])

\* predictions.find(p => p.matchId === match.id) of renderMatchCard, as the
\* list of the matching entries (find takes the first)
DashFind(m) == FilterSeq(dash.predictions, LAMBDA e : e.doc.matchId = m)

\* correctPredictions of renderMatchCard
DashCorrect(m) ==
    IF DashFind(m) # <<>>
    THEN GetCorrectPredictions(DashFind(m)[1].doc.selectedPlayers)
    ELSE 0

\* Mutant of GetMatchStatus: the comparison of the start instant is reversed.
GetMatchStatus_Reversed(ts, status, t) ==
    IF ts < t THEN "upcoming"
    ELSE IF status = "completed" THEN "completed"
    ELSE "live"

\* Mutant of GetMatchStatus: a match is still upcoming at its start instant.
GetMatchStatus_Inclusive(ts, status, t) ==
    IF ts >= t THEN "upcoming"
    ELSE IF status = "completed" THEN "completed"
    ELSE "live"

\* getMatchStatus of the dashboard
GetMatchStatus(ts, status, t) ==
    IF ts > t THEN "upcoming"
    ELSE IF status = "completed" THEN "completed"
    ELSE "live"

\* getMatchStatus(match) of a match the dashboard loaded, at the current instant
DashStatus(m) == GetMatchStatus(matches[m].timestamp, matches[m].status, now)

\* upcomingMatches, completedMatches and liveMatches of the dashboard
UpcomingMatches == FilterSeq(dash.matches, LAMBDA m : DashStatus(m) = "upcoming")

CompletedMatches == FilterSeq(dash.matches, LAMBDA m : DashStatus(m) = "completed")

LiveMatches == FilterSeq(dash.matches, LAMBDA m : DashStatus(m) = "live")

\* --------------------------------------------------------- ManagePlayers
\* ManagePlayers mounts: fetchPlayers() and fetchMatches() are issued.
AdminMount ==
    /\ admin.pc = "unmounted"
    /\ admin' = [admin EXCEPT !.pc = "mounted", !.fetchingPlayers = TRUE,
                              !.fetchingMatches = TRUE]
    /\ UNCHANGED <<now, matches, players, predictions, view, dash>>

\* fetchPlayers: the collection arrives.
AdminFetchPlayers ==
    /\ admin.fetchingPlayers
    /\ admin' = [admin EXCEPT !.fetchingPlayers = FALSE, !.players = players,
                              !.loading = FALSE]
    /\ UNCHANGED <<now, matches, players, predictions, view, dash>>

RECURSIVE SortAsc(_)
\* matchesData.sort((a, b) => a.timestamp - b.timestamp)
SortAsc(S) ==
    IF S = {} THEN <<>>
    ELSE LET x == CHOOSE y \in S : \A z \in S :
                      \/ matches[y].timestamp < matches[z].timestamp
                      \/ matches[y].timestamp = matches[z].timestamp /\ y <= z
         IN  <<x>> \o SortAsc(S \ {x})

\* fetchMatches: the collection arrives; the earliest match is selected.
AdminFetchMatches ==
    /\ admin.fetchingMatches
    /\ LET sorted == SortAsc(DOMAIN matches)
       IN  admin' = [admin EXCEPT !.fetchingMatches = FALSE, !.matches = sorted,
                                  !.selectedMatch =
                                      IF Len(sorted) > 0 THEN sorted[1] ELSE @]
    /\ UNCHANGED <<now, matches, players, predictions, view, dash>>

\* getMatchStatus of the admin page
AdminGetMatchStatus(ts, status, t) ==
    IF ts > t THEN "upcoming"
    ELSE IF status = "completed" THEN "completed"
    ELSE "live"

\* The rows of the players list, in the order loaded.
AdminRows == SetToSeq(DOMAIN admin.players)

\* Mutant of HandleDeletePlayer: the delete cascades into the predictions and
\* removes the player's entry from each of them.
HandleDeletePlayer_Cascade(p) ==
    /\ admin.pc = "mounted"
    /\ p \in DOMAIN admin.players
    /\ players' = [q \in DOMAIN players \ {p} |-> players[q]]
    /\ predictions' = [i \in DOMAIN predictions |->
                          [predictions[i] EXCEPT !.selectedPlayers =
                              FilterSeq(@, LAMBDA e : e.id # p)]]
    /\ admin' = [admin EXCEPT !.fetchingPlayers = TRUE]
    /\ UNCHANGED <<now, matches, view, dash>>

\* handleDeletePlayer(playerId): deleteDoc, then fetchPlayers().
HandleDeletePlayer(p) ==
    /\ admin.pc = "mounted"
    /\ p \in DOMAIN admin.players
    /\ players' = [q \in DOMAIN players \ {p} |-> players[q]]
    /\ admin' = [admin EXCEPT !.fetchingPlayers = TRUE]
    /\ UNCHANGED <<now, matches, predictions, view, dash>>

\* handleEditTargets(player)
HandleEditTargets(p) ==
    /\ admin.pc = "mounted"
    /\ p \in DOMAIN admin.players
    /\ LET pl == admin.players[p]
       IN  admin' = [admin EXCEPT
             !.editingPlayer = [id |-> p, name |-> pl.name, team |-> pl.team,
                                role |-> pl.role, matchTargets |-> pl.matchTargets],
             !.editingTargets =
                 [q \in {p} |->
                     IF admin.selectedMatch \in DOMAIN pl.matchTargets
                     THEN pl.matchTargets[admin.selectedMatch]
                     ELSE [type |-> IF pl.role = "bowler" THEN "wickets" ELSE "runs",
                           target |-> 0,
                           actualPoints |-> ExplicitUndef,
                           isSelected |-> FALSE]]]
    /\ UNCHANGED <<now, matches, players, predictions, view, dash>>

\* onChange of the "Actual Points" input of the row being edited
SetActualPoints(x) ==
    /\ admin.pc = "mounted"
    /\ admin.editingPlayer.id # NoId
    /\ admin.editingPlayer.id \in DOMAIN admin.editingTargets
    /\ admin' = [admin EXCEPT
                   !.editingTargets[admin.editingPlayer.id].actualPoints = x]
    /\ UNCHANGED <<now, matches, players, predictions, view, dash>>

\* handleUpdatePlayer: updateDoc of name, team, role and the whole matchTargets
\* map, then the editor closes and fetchPlayers() is issued. updateDoc throws
\* on a missing document; a field written out as undefined is either refused
\* or dropped by the store client (ignoreUndefinedProperties), as configured.
HandleUpdatePlayer(dropUndefined) ==
    /\ admin.pc = "mounted"
    /\ admin.editingPlayer.id # NoId
    /\ LET ep == admin.editingPlayer
           et == admin.editingTargets[ep.id]
           entry == [et EXCEPT !.isSelected = TRUE,
                               !.actualPoints =
                                   IF @ = ExplicitUndef THEN Undef ELSE @]
           updated == [m \in DOMAIN ep.matchTargets \cup {admin.selectedMatch} |->
                          IF m = admin.selectedMatch THEN entry
                          ELSE ep.matchTargets[m]]
           accepted == /\ ep.id \in DOMAIN players
                       /\ (et.actualPoints = ExplicitUndef => dropUndefined)
       IN  IF accepted
           THEN /\ players' = [players EXCEPT ![ep.id] =
                                 [name |-> ep.name, team |-> ep.team,
                                  role |-> ep.role, matchTargets |-> updated]]
                /\ admin' = [admin EXCEPT
                               !.editingPlayer = [id |-> NoId],
                               !.editingTargets = [q \in {} |-> InitTarget(q)],
                               !.fetchingPlayers = TRUE]
           ELSE UNCHANGED <<players, admin>>
    /\ UNCHANGED <<now, matches, predictions, view, dash>>

\* onChange of the name input of the row being edited
SetEditingName(n) ==
    /\ admin.pc = "mounted"
    /\ admin.editingPlayer.id # NoId
    /\ admin' = [admin EXCEPT !.editingPlayer.name = n]
    /\ UNCHANGED <<now, matches, players, predictions, view, dash>>

\* The cancel button of the row being edited
CancelEdit ==
    /\ admin.pc = "mounted"
    /\ admin.editingPlayer.id # NoId
    /\ admin' = [admin EXCEPT !.editingPlayer = [id |-> NoId],
                              !.editingTargets = [q \in {} |-> InitTarget(q)]]
    /\ UNCHANGED <<now, matches, players, predictions, view, dash>>

\* onChange of the match selector
SetSelectedMatch(m) ==
    /\ admin.pc = "mounted"
    /\ m \in Range(admin.matches)
    /\ admin' = [admin EXCEPT !.selectedMatch = m]
    /\ UNCHANGED <<now, matches, players, predictions, view, dash>>

\* handleTogglePlayerSelection(player), on a row that is not being edited:
\* updateDoc of the whole matchTargets map built from the row's player, then
\* fetchPlayers(). updateDoc throws on a missing document; the default entry
\* writes actualPoints out as undefined, which the store client refuses or
\* drops (ignoreUndefinedProperties), as configured.
HandleTogglePlayerSelection(p, dropUndefined) ==
    /\ admin.pc = "mounted"
    /\ p \in DOMAIN admin.players
    /\ admin.editingPlayer.id # p
    /\ LET pl == admin.players[p]
           sm == admin.selectedMatch
           has == sm \in DOMAIN pl.matchTargets
           entry == IF has
                    THEN [pl.matchTargets[sm] EXCEPT !.isSelected = ~@]
                    ELSE [type |-> IF pl.role = "bowler" THEN "wickets" ELSE "runs",
                          target |-> 0,
                          actualPoints |-> Undef,
                          isSelected |-> TRUE]
           updated == [m \in DOMAIN pl.matchTargets \cup {sm} |->
                          IF m = sm THEN entry ELSE pl.matchTargets[m]]
       IN  IF p \in DOMAIN players /\ (~has => dropUndefined)
           THEN /\ players' = [players EXCEPT ![p].matchTargets = updated]
                /\ admin' = [admin EXCEPT !.fetchingPlayers = TRUE]
           ELSE UNCHANGED <<players, admin>>
    /\ UNCHANGED <<now, matches, predictions, view, dash>>

\* Two sessions of one user on match 1; a click on a card is a click on the
\* first card of the available list.
Next ==
    \/ Tick
    \/ \E v \in Views : Mount(v, 1, "u1")
    \/ \E v \in Views : FetchMatch(v)
    \/ \E v \in Views : FetchPlayers(v)
    \/ \E v \in Views : FetchPredictions(v)
    \/ \E v \in Views : FetchFail(v)
    \/ \E v \in Views : \E p \in ClickChoices(view[v].availablePlayers, 1) :
          HandlePlayerSelect(v, p)
    \/ \E v \in Views : HandleSubmit(v)
    \/ \E v \in Views : WriteDone(v)
    \/ \E v \in Views : WriteFail(v)

Spec == Init /\ [][Next]_vars

\* As Next, but the user starts a submission only while no other session has
\* one in flight: submissions follow one another.
NextSeq ==
    \/ Tick
    \/ \E v \in Views : Mount(v, 1, "u1")
    \/ \E v \in Views : FetchMatch(v)
    \/ \E v \in Views : FetchPlayers(v)
    \/ \E v \in Views : FetchPredictions(v)
    \/ \E v \in Views : FetchFail(v)
    \/ \E v \in Views : \E p \in ClickChoices(view[v].availablePlayers, 1) :
          HandlePlayerSelect(v, p)
    \/ \E v \in Views :
          /\ \A w \in Views \ {v} : view[w].writes = <<>>
          /\ HandleSubmit(v)
    \/ \E v \in Views : WriteDone(v)
    \/ \E v \in Views : WriteFail(v)

SpecSeq == Init /\ [][NextSeq]_vars

\* One session that selects and removes (a click lands on one of the first
\* MaxChoice cards), while an administrator deletes a player of the full list.
NextEdit ==
    \/ Tick
    \/ Mount(1, 1, "u1")
    \/ FetchMatch(1)
    \/ FetchPlayers(1)
    \/ FetchPredictions(1)
    \/ FetchFail(1)
    \/ \E p \in ClickChoices(view[1].availablePlayers, MaxChoice) :
          HandlePlayerSelect(1, p)
    \/ \E p \in ClickChoices(view[1].selectedPlayers, MaxChoice) :
          HandlePlayerRemove(1, p)
    \/ HandleSubmit(1)
    \/ WriteDone(1)
    \/ WriteFail(1)
    \/ AdminMount
    \/ AdminFetchPlayers
    \/ \E p \in ClickChoices(AdminRows, MaxChoice) :
          /\ DOMAIN players = PlayerIds
          /\ HandleDeletePlayer(p)

SpecEdit == Init /\ [][NextEdit]_vars

\* The store after a first session has submitted players 1..5 for (u1, 1) at
\* time 0 (a state Spec reaches), at the start instant of match 1.
InitScore ==
    /\ now = 1
    /\ matches = InitMatches
    /\ players = [p \in PlayerIds |-> InitPlayer(p)]
    /\ predictions =
          [i \in {1} |->
              [userId |-> "u1",
               matchId |-> 1,
               selectedPlayers |->
                   [k \in 1..MaxSelected |-> SnapshotEntry(k, InitPlayer(k), 1)],
               updatedAt |-> 0,
               status |-> "pending"]]
    /\ view = [v \in Views |-> InitView]
    /\ dash = InitDash
    /\ admin = InitAdmin

\* After the start of match 1: one session that reopens the match, the
\* dashboard of the same user, and an administrator who records outcomes.
NextScore ==
    \/ Mount(1, 1, "u1")
    \/ FetchMatch(1)
    \/ FetchPlayers(1)
    \/ FetchPredictions(1)
    \/ DashMount("u1")
    \/ DashFetchMatches
    \/ DashFetchPredictions
    \/ DashUnmount
    \/ AdminMount
    \/ AdminFetchPlayers
    \/ AdminFetchMatches
    \/ \E p \in ClickChoices(AdminRows, MaxChoice) : HandleEditTargets(p)
    \/ \E x \in 0..MaxPts : SetActualPoints(x)
    \/ HandleUpdatePlayer(TRUE)

SpecScore == InitScore /\ [][NextScore]_vars

\* Matches with any start instant and any stored status.
InitStatus ==
    /\ now = 0
    /\ matches \in [MatchIds -> [timestamp : 0..MaxTime,
                                 status : {"scheduled", "completed"}]]
    /\ players = [p \in PlayerIds |-> InitPlayer(p)]
    /\ predictions = [i \in {} |-> 0]
    /\ view = [v \in Views |-> InitView]
    /\ dash = InitDash
    /\ admin = InitAdmin

\* The clock runs while the dashboard, the admin page and a prediction view of
\* either match load.
NextStatus ==
    \/ Tick
    \/ \E m \in MatchIds : Mount(1, m, "u1")
    \/ FetchMatch(1)
    \/ FetchPlayers(1)
    \/ FetchPredictions(1)
    \/ DashMount("u1")
    \/ DashFetchMatches
    \/ DashFetchPredictions
    \/ DashUnmount
    \/ AdminMount
    \/ AdminFetchPlayers
    \/ AdminFetchMatches

SpecStatus == InitStatus /\ [][NextStatus]_vars

\* The :matchId a route can carry: none, a match of the store, or an id the
\* store has no match for.
RouteMatchIds == {NoMatch} \cup MatchIds \cup {Cardinality(MatchIds) + 1}

\* One session opened on any route parameter, with or without a user.
NextLoad ==
    \/ Tick
    \/ \E m \in RouteMatchIds : \E u \in UserIds \cup {NoUser} : Mount(1, m, u)
    \/ FetchMatch(1)
    \/ FetchPlayers(1)
    \/ FetchPredictions(1)
    \/ FetchFail(1)
    \/ \E p \in ClickChoices(view[1].availablePlayers, 1) : HandlePlayerSelect(1, p)
    \/ HandleSubmit(1)
    \/ WriteDone(1)
    \/ WriteFail(1)
    \/ BackToDashboard(1)

SpecLoad == Init /\ [][NextLoad]_vars

\* An administrator who has loaded the page edits and toggles the player of
\* the first row for the match of the selector; the store client refuses or
\* drops a field written out as undefined.
NextAdmin ==
    \/ AdminMount
    \/ AdminFetchPlayers
    \/ AdminFetchMatches
    \/ \E m \in MatchIds : SetSelectedMatch(m)
    \/ \E p \in ClickChoices(AdminRows, MaxChoice) :
          /\ admin.selectedMatch # NoMatch
          /\ HandleEditTargets(p)
    \/ \E x \in 0..MaxPts : SetActualPoints(x)
    \/ CancelEdit
    \/ \E d \in BOOLEAN : HandleUpdatePlayer(d)
    \/ \E p \in ClickChoices(AdminRows, MaxChoice) : \E d \in BOOLEAN :
          /\ admin.selectedMatch # NoMatch
          /\ HandleTogglePlayerSelection(p, d)

SpecAdmin == Init /\ [][NextAdmin]_vars

\* One session that submits and reopens its prediction, while an administrator
\* renames, saves, toggles and deletes the player of the first row.
NextFrame ==
    \/ Mount(1, 1, "u1")
    \/ FetchMatch(1)
    \/ FetchPlayers(1)
    \/ FetchPredictions(1)
    \/ \E p \in ClickChoices(view[1].availablePlayers, 1) : HandlePlayerSelect(1, p)
    \/ HandleSubmit(1)
    \/ WriteDone(1)
    \/ AdminMount
    \/ AdminFetchPlayers
    \/ AdminFetchMatches
    \/ \E p \in ClickChoices(AdminRows, MaxChoice) :
          /\ admin.selectedMatch # NoMatch
          /\ HandleEditTargets(p)
    \/ SetEditingName("b")
    \/ HandleUpdatePlayer(TRUE)
    \/ \E p \in ClickChoices(AdminRows, MaxChoice) :
          /\ admin.selectedMatch # NoMatch
          /\ HandleTogglePlayerSelection(p, TRUE)
    \/ \E p \in ClickChoices(AdminRows, MaxChoice) :
          /\ DOMAIN players = PlayerIds
          /\ HandleDeletePlayer(p)

SpecFrame == Init /\ [][NextFrame]_vars

\* The store call a load of view v is awaiting returns or fails.
StoreAnswers(v) ==
    \/ FetchMatch(v)
    \/ FetchPlayers(v)
    \/ FetchPredictions(v)
    \/ FetchFail(v)

\* SpecLoad with a store that answers every call of a load.
SpecLive == Init /\ [][NextLoad]_vars /\ WF_vars(StoreAnswers(1))

\* The store client's treatment of a field written out as undefined (the
\* ignoreUndefinedProperties setting of the client): it drops the field, so
\* that a Target is stored without an outcome, the optional actualPoints of
\* the persisted players/{id} shape.
IgnoreUndefinedProperties == TRUE

\* The cards at the two ends of a rendered list.
EndChoices(list) == {list[i] : i \in {1, Len(list)} \cap DOMAIN list}

\* One session that selects from either end of the available list and
\* submits, while an administrator toggles the eligibility of the first and of
\* the last player of the page (the last one has no Target for the match).
NextSelect ==
    \/ Mount(1, 1, "u1")
    \/ FetchMatch(1)
    \/ FetchPlayers(1)
    \/ FetchPredictions(1)
    \/ \E p \in EndChoices(view[1].availablePlayers) : HandlePlayerSelect(1, p)
    \/ HandleSubmit(1)
    \/ WriteDone(1)
    \/ AdminMount
    \/ AdminFetchPlayers
    \/ AdminFetchMatches
    \/ \E p \in EndChoices(AdminRows) :
          /\ admin.selectedMatch # NoMatch
          /\ HandleTogglePlayerSelection(p, IgnoreUndefinedProperties)

SpecSelect == Init /\ [][NextSelect]_vars

\* ------------------------------------------------------------------ claims
\* The prediction documents of (u, m) in a predictions collection.
PairIds(preds, u, m) ==
    {i \in DOMAIN preds : preds[i].userId = u /\ preds[i].matchId = m}

\* The players of a loaded collection that have a Target for match m.
Eligible(all, m) == {p \in DOMAIN all : m \in DOMAIN all[p].matchTargets}

\* C1: no prediction document of a match is written at or after the match's
\* start instant. updatedAt is the instant handleSubmit ran, which is no later
\* than the instant the store executes the write, so every stored document
\* would carry an updatedAt before the start instant of its match.
C1_NoWriteAtOrAfterStart ==
    \A i \in DOMAIN predictions :
        predictions[i].updatedAt < matches[predictions[i].matchId].timestamp

\* C2: the lock is decided when the match document arrives, as
\* not (now < start instant); while a loaded view is locked, no step changes its
\* selected or available list, issues a write or changes the predictions.
C2_LockStrict ==
    [][\A v \in Views :
          /\ (view[v].pc = "fetchMatch" /\ view'[v].pc = "fetchPlayers")
                => (view'[v].matchStarted
                      <=> ~(now < matches[view[v].matchId].timestamp))
          /\ (view[v].pc = "ready" /\ view[v].matchStarted)
                => /\ view'[v].selectedPlayers = view[v].selectedPlayers
                   /\ view'[v].availablePlayers = view[v].availablePlayers
                   /\ view'[v].writes = <<>>
                   /\ view'[v].error = view[v].error
                   /\ predictions' = predictions]_vars

\* C2 witness: a view loaded exactly at the start instant is locked while it
\* shows a five-player selection and an available player.
C2_Witness ==
    /\ Rendered(1)
    /\ view[1].matchStarted
    /\ now = matches[1].timestamp
    /\ Len(view[1].selectedPlayers) = MaxSelected
    /\ view[1].availablePlayers # <<>>

\* C3: when submissions for one (user, match) follow one another, the pair
\* never has more than one document, and once it has one, its identifier stays.
C3_SequentialOverwrite ==
    [][\A u \in UserIds : \A m \in MatchIds :
          /\ Cardinality(PairIds(predictions', u, m)) <= 1
          /\ PairIds(predictions, u, m) # {}
                => PairIds(predictions', u, m) = PairIds(predictions, u, m)]_vars

\* C4: a second document for a (user, match) that already has one is only ever
\* added by the create of a session whose load found no prediction; the
\* witness is the state with two documents of one pair.
C4_DuplicateOnlyByRace ==
    [][\A u \in UserIds : \A m \in MatchIds :
          (/\ PairIds(predictions, u, m) # {}
           /\ Cardinality(PairIds(predictions', u, m))
                 > Cardinality(PairIds(predictions, u, m)))
          => \E v \in Views :
                /\ view[v].writes # <<>>
                /\ Head(view[v].writes).id = NoId
                /\ view[v].existingPredictionId = NoId
                /\ view[v].user = u /\ view[v].match = m
                /\ view'[v].writes = Tail(view[v].writes)]_vars

\* C4 witness: two prediction documents of the same (user, match).
C4_Witness ==
    \E i \in DOMAIN predictions : \E j \in DOMAIN predictions :
        /\ i # j
        /\ predictions[i].userId = predictions[j].userId
        /\ predictions[i].matchId = predictions[j].matchId

\* C5: in a loaded view the selected and available lists have no player in
\* common and no player twice, and together hold exactly the players that had
\* a Target for the match in the players collection the view loaded.
C5_ListsPartitionEligible ==
    \A v \in Views :
        view[v].pc = "ready" =>
            LET sel == view[v].selectedPlayers
                av == view[v].availablePlayers
            IN  /\ Range(sel) \cap Range(av) = {}
                /\ Range(sel) \cup Range(av)
                      = Eligible(view[v].allPlayers, view[v].matchId)
                /\ Cardinality(Range(sel)) = Len(sel)
                /\ Cardinality(Range(av)) = Len(av)

\* C5 witness: a loaded view after a remove (player 1 is back at the end of
\* the available list) with a selection, whose loaded collection has a player
\* without a Target for the match.
C5_Witness ==
    /\ view[1].pc = "ready"
    /\ view[1].selectedPlayers # <<>>
    /\ view[1].availablePlayers # <<>>
    /\ view[1].availablePlayers[Len(view[1].availablePlayers)] = 1
    /\ \E p \in DOMAIN view[1].allPlayers :
          p \notin Eligible(view[1].allPlayers, view[1].matchId)

\* C6: the selected list never holds more than five players, and a select
\* with five selected leaves both lists as they are.
C6_AtMostFive ==
    [][\A v \in Views :
          /\ Len(view[v].selectedPlayers) <= MaxSelected
          /\ Len(view'[v].selectedPlayers) <= MaxSelected
          /\ \A p \in PlayerIds :
                (Len(view[v].selectedPlayers) = MaxSelected
                 /\ HandlePlayerSelect(v, p))
                => /\ view'[v].selectedPlayers = view[v].selectedPlayers
                   /\ view'[v].availablePlayers = view[v].availablePlayers]_vars

\* C6 witness: an unlocked view with five selected and a sixth player on offer.
C6_Witness ==
    /\ Rendered(1)
    /\ ~view[1].matchStarted
    /\ Len(view[1].selectedPlayers) = MaxSelected
    /\ view[1].availablePlayers # <<>>

\* C7: a write is issued only by a view with exactly five selected, not locked
\* and with no write in flight; a submit in any other state changes nothing.
C7_SubmitGuard ==
    [][\A v \in Views :
          LET ok == /\ Len(view[v].selectedPlayers) = MaxSelected
                    /\ ~view[v].matchStarted
                    /\ view[v].writes = <<>>
          IN  /\ Len(view'[v].writes) > Len(view[v].writes) => ok
              /\ (HandleSubmit(v) /\ ~ok) => UNCHANGED vars]_vars

\* C7 witness: a rendered view with five selected whose submission is in flight.
C7_Witness ==
    \E v \in Views :
        /\ Rendered(v)
        /\ Len(view[v].selectedPlayers) = MaxSelected
        /\ view[v].writes # <<>>

\* C8: every stored prediction, and every write in flight, has exactly five
\* entries with pairwise distinct player ids, each carrying the Target the
\* player had for the match in the collection the submitting view loaded, and
\* status "pending".
C8_FiveDistinctEligible ==
    /\ \A i \in DOMAIN predictions :
          LET sp == predictions[i].selectedPlayers
          IN  /\ Len(sp) = MaxSelected
              /\ \A j \in 1..Len(sp) : \A k \in 1..Len(sp) :
                    sp[j].id = sp[k].id => j = k
              /\ \A k \in 1..Len(sp) : "target" \in DOMAIN sp[k]
              /\ predictions[i].status = "pending"
    /\ \A v \in Views : \A n \in 1..Len(view[v].writes) :
          LET sp == view[v].writes[n].data.selectedPlayers
          IN  /\ Len(sp) = MaxSelected
              /\ \A k \in 1..Len(sp) :
                    sp[k].id \in Eligible(view[v].allPlayers,
                                          view[v].writes[n].data.matchId)

\* C8 witness: a stored prediction holds a player who has since been deleted.
C8_Witness ==
    \E i \in DOMAIN predictions :
        \E k \in 1..Len(predictions[i].selectedPlayers) :
            predictions[i].selectedPlayers[k].id \notin DOMAIN players

\* A Target with a recorded outcome that reaches the threshold.
MeetsThreshold(tg) == tg.actualPoints # Undef /\ tg.actualPoints >= tg.target

\* C9: the count of the prediction view is the number of selected players
\* whose loaded Target has an outcome >= its threshold, the count of a
\* dashboard card is the number of entries of the prediction it found with an
\* outcome >= the entry's threshold, and both lie in 0..5.
C9_CountCorrect ==
    /\ \A v \in Views :
          (view[v].pc = "ready" /\ view[v].matchStarted
           /\ view[v].existingPredictionId # NoId)
          => /\ view[v].correctPredictions \in 0..MaxSelected
             /\ view[v].correctPredictions =
                   Cardinality({p \in Range(view[v].selectedPlayers) :
                       MeetsThreshold(
                           view[v].allPlayers[p].matchTargets[view[v].matchId])})
    /\ dash.pc = "ready"
          => \A m \in MatchIds :
                /\ DashCorrect(m) \in 0..MaxSelected
                /\ DashFind(m) # <<>>
                      => LET sp == DashFind(m)[1].doc.selectedPlayers
                         IN  DashCorrect(m) =
                               Cardinality({k \in 1..Len(sp) : MeetsThreshold(sp[k])})

\* C9 witness: the view counts two players (one whose outcome equals the
\* threshold was recorded by the administrator) next to a selected player who
\* missed and players without an outcome, and a dashboard card counts one.
C9_Witness ==
    /\ view[1].pc = "ready"
    /\ view[1].correctPredictions = 2
    /\ \E p \in Range(view[1].selectedPlayers) :
          LET tg == view[1].allPlayers[p].matchTargets[1]
          IN  tg.actualPoints # Undef /\ tg.actualPoints < tg.target
    /\ \E p \in Range(view[1].selectedPlayers) :
          view[1].allPlayers[p].matchTargets[1].actualPoints = Undef
    /\ dash.pc = "ready"
    /\ DashCorrect(1) = 1

\* The number of a prediction's players whose Target in the players collection
\* has an outcome >= its threshold.
LiveCorrect(doc) ==
    Cardinality({k \in 1..Len(doc.selectedPlayers) :
        LET p == doc.selectedPlayers[k].id
        IN  /\ p \in DOMAIN players
            /\ doc.matchId \in DOMAIN players[p].matchTargets
            /\ MeetsThreshold(players[p].matchTargets[doc.matchId])})

\* C10: when the dashboard finishes loading, the count of each card with a
\* prediction is the count over the players' Targets in the store at that
\* moment, and so is the count of a prediction view that loads its players and
\* its prediction from the same store state.
C10_CountsAreLive ==
    [][/\ (dash.pc = "fetchPredictions" /\ dash'.pc = "ready")
            => \A m \in MatchIds :
                  PairIds(predictions, dash.user, m) # {}
                  => DashCorrect(m)' =
                        LiveCorrect(predictions[
                            CHOOSE i \in PairIds(predictions, dash.user, m) :
                                \A j \in PairIds(predictions, dash.user, m) : i <= j])
       /\ \A v \in Views :
            (/\ view[v].pc = "fetchPredictions" /\ view'[v].pc = "ready"
             /\ view[v].allPlayers = players
             /\ view[v].matchStarted
             /\ PairIds(predictions, view[v].user, view[v].matchId) # {})
            => view'[v].correctPredictions =
                  LiveCorrect(predictions[
                      CHOOSE i \in PairIds(predictions, view[v].user, view[v].matchId) :
                          \A j \in PairIds(predictions, view[v].user, view[v].matchId) :
                              i <= j])]_vars

\* C11: every selectedPlayers entry of a stored prediction, and of a write in
\* flight, carries the player's id, name and team and the Target's kind and
\* threshold, and carries no observed outcome, whatever the Target held when
\* the user submitted.
C11_SnapshotOmitsOutcome ==
    LET NoOutcome(sp) ==
            \A k \in 1..Len(sp) :
                /\ {"id", "name", "team", "type", "target"} \subseteq DOMAIN sp[k]
                /\ ("actualPoints" \in DOMAIN sp[k] => sp[k].actualPoints = Undef)
    IN  /\ \A i \in DOMAIN predictions : NoOutcome(predictions[i].selectedPlayers)
        /\ \A v \in Views : \A n \in 1..Len(view[v].writes) :
              NoOutcome(view[v].writes[n].data.selectedPlayers)

\* The document a load of (u, m) reads: docs[0] of the query.
FirstOfPair(u, m) ==
    predictions[CHOOSE i \in PairIds(predictions, u, m) :
                    \A j \in PairIds(predictions, u, m) : i <= j]

\* C12: when a prediction view finishes loading a (user, match) that has a
\* stored prediction, its selected list holds exactly the five player ids of
\* the stored snapshot, each player is shown with the Target kind and
\* threshold of its snapshot entry, and the available list holds the other
\* eligible players.
C12_RoundTrip ==
    [][\A v \in Views :
          (/\ view[v].pc = "fetchPredictions"
           /\ view'[v].pc = "ready"
           /\ PairIds(predictions, view[v].user, view[v].matchId) # {})
          => LET m == view[v].matchId
                 sp == FirstOfPair(view[v].user, m).selectedPlayers
                 ids == {sp[k].id : k \in 1..Len(sp)}
                 all == view'[v].allPlayers
             IN  /\ Len(view'[v].selectedPlayers) = MaxSelected
                 /\ Range(view'[v].selectedPlayers) = ids
                 /\ \A k \in 1..Len(sp) :
                       /\ all[sp[k].id].matchTargets[m].type = sp[k].type
                       /\ all[sp[k].id].matchTargets[m].target = sp[k].target
                 /\ Range(view'[v].availablePlayers) = Eligible(all, m) \ ids]_vars

\* C13: the derived status of a match is upcoming exactly when its start
\* instant is after now, otherwise completed exactly when the stored status is
\* completed, otherwise live; the dashboard's three lists split the loaded
\* matches accordingly; the admin page computes the same value; and a
\* prediction view that reads the match at that instant is unlocked exactly
\* when the match is upcoming.
C13_StatusClassification ==
    [][/\ \A m \in MatchIds :
            LET ts == matches[m].timestamp
                st == matches[m].status
                s == GetMatchStatus(ts, st, now)
            IN  /\ s \in {"upcoming", "completed", "live"}
                /\ s = "upcoming" <=> ts > now
                /\ s = "completed" <=> (~(ts > now) /\ st = "completed")
                /\ s = "live" <=> (~(ts > now) /\ st # "completed")
                /\ AdminGetMatchStatus(ts, st, now) = s
       /\ dash.pc = "ready"
            => /\ Range(UpcomingMatches) \cup Range(CompletedMatches)
                     \cup Range(LiveMatches) = Range(dash.matches)
               /\ Len(UpcomingMatches) + Len(CompletedMatches) + Len(LiveMatches)
                     = Len(dash.matches)
               /\ \A m \in Range(UpcomingMatches) : matches[m].timestamp > now
       /\ \A v \in Views :
            (view[v].pc = "fetchMatch" /\ view'[v].pc = "fetchPlayers")
            => (~view'[v].matchStarted
                  <=> DashStatus(view[v].matchId) = "upcoming")]_vars

\* C13 witness: the dashboard shows a completed match and a live one while a
\* prediction view that read its match at the start instant is locked.
C13_Witness ==
    /\ dash.pc = "ready"
    /\ Len(CompletedMatches) = 1
    /\ Len(LiveMatches) = 1
    /\ view[1].pc = "ready"
    /\ view[1].matchStarted
    /\ matches[view[1].matchId].timestamp = now

\* C14: when the store rejects a prediction write, the view keeps its selected
\* and available lists, clears submitting, and still renders its editing view,
\* so that select, remove and submit can be used again without a reload.
C14_WriteFailureKeepsEditing ==
    [][\A v \in Views :
          (/\ view[v].writes # <<>>
           /\ view'[v].writes = Tail(view[v].writes)
           /\ view'[v].pc = "ready")
          => /\ view'[v].selectedPlayers = view[v].selectedPlayers
             /\ view'[v].availablePlayers = view[v].availablePlayers
             /\ ~view'[v].submitting
             /\ Rendered(v)']_vars

\* A view opened without a match id, without a user, or on a match id the
\* store has no match for.
BadLoad(v) ==
    /\ view[v].pc # "unmounted"
    /\ \/ view[v].matchId = NoMatch
       \/ view[v].user = NoUser
       \/ view[v].matchId \notin DOMAIN matches

\* C15: a prediction view opened without a match id, without a user, or on a
\* match the store does not have, gets no further than the match read, where
\* it ends with the error set, loading cleared, both lists empty, no write
\* issued and the editing view not rendered; from there the only step of the
\* view is the navigation to the dashboard, and the predictions stay as they
\* are.
C15_BlockingError ==
    [][\A v \in Views :
          BadLoad(v) =>
             /\ view[v].pc \in {"fetchMatch", "error"}
             /\ view[v].selectedPlayers = <<>>
             /\ view[v].availablePlayers = <<>>
             /\ view[v].writes = <<>>
             /\ ~Rendered(v)
             /\ view[v].pc = "error"
                   => /\ view[v].error # "null"
                      /\ ~view[v].loading
                      /\ view'[v] # view[v] => view'[v] = InitView
                      /\ predictions' = predictions
             /\ (view[v].pc = "fetchMatch" /\ view'[v] # view[v])
                   => view'[v].pc = "error"]_vars

\* C15 witness: the view shows the error page for a match that does not exist.
C15_Witness ==
    /\ view[1].pc = "error"
    /\ view[1].error = "Match not found"
    /\ view[1].user # NoUser
    /\ view[1].matchId \notin DOMAIN matches
    /\ ~view[1].loading

\* C16: a step in which the administrator changes the players collection
\* (delete, save of identity or Target, eligibility toggle) leaves every
\* prediction document as it was.
C16_AdminLeavesPredictions ==
    [][players' # players => predictions' = predictions]_vars

\* C16 witness: a stored prediction still holds the entry of a player who has
\* been deleted, and the entry, as submitted, of a player who has since been
\* renamed and toggled off for the match.
C16_Witness ==
    \E i \in DOMAIN predictions :
        LET sp == predictions[i].selectedPlayers
        IN  /\ \E k \in 1..Len(sp) : sp[k].id \notin DOMAIN players
            /\ \E k \in 1..Len(sp) :
                  /\ sp[k].id \in DOMAIN players
                  /\ players[sp[k].id].name = "b"
                  /\ sp[k].name = "a"
                  /\ ~players[sp[k].id].matchTargets[1].isSelected
                  /\ sp[k].isSelected

\* C17: a save or an eligibility toggle never clears a recorded outcome: a
\* (player, match) Target that has an outcome in the store still has one after
\* any step that keeps the player. (No step of the model is an administrator
\* emptying the outcome field: SetActualPoints enters a number.)
C17_OutcomeNeverCleared ==
    [][\A p \in DOMAIN players \cap DOMAIN players' :
          \A m \in DOMAIN players[p].matchTargets :
              players[p].matchTargets[m].actualPoints # Undef
              => /\ m \in DOMAIN players'[p].matchTargets
                 /\ players'[p].matchTargets[m].actualPoints # Undef]_vars

\* C18: a save or an eligibility toggle changes, of the player's stored
\* Targets, only the one of the match chosen in the selector: the entry of
\* every other match is in the store after the write what it was in the store
\* before it.
C18_ScopedToSelectedMatch ==
    [][\A p \in DOMAIN players \cap DOMAIN players' :
          \A m \in DOMAIN players[p].matchTargets :
              m # admin.selectedMatch
              => /\ m \in DOMAIN players'[p].matchTargets
                 /\ players'[p].matchTargets[m] = players[p].matchTargets[m]]_vars

\* C19: with the start instants fixed and the clock only advancing, a match
\* that is not upcoming is not upcoming after any step, and a live match whose
\* stored status is not completed after the step is still live.
C19_StatusNeverBackwards ==
    [][\A m \in MatchIds :
          /\ matches'[m].timestamp = matches[m].timestamp /\ now' >= now
          /\ DashStatus(m) # "upcoming" => DashStatus(m)' # "upcoming"
          /\ (DashStatus(m) = "live" /\ matches'[m].status # "completed")
                => DashStatus(m)' = "live"]_vars

\* C19 witness: the dashboard shows as live a match that started two instants
\* ago and was never marked completed, next to one that has reached its start.
C19_Witness ==
    /\ dash.pc = "ready"
    /\ Len(LiveMatches) = 2
    /\ \E m \in MatchIds : now >= matches[m].timestamp + 2
    /\ \E m \in MatchIds : now = matches[m].timestamp

C21_LoadingEndsIffStoreAnswers ==
    /\ [][\A v \in Views :
            /\ view[v].pc \in {"fetchMatch", "fetchPlayers", "fetchPredictions"}
                  => /\ view[v].loading
                     /\ ~Rendered(v)
                     /\ view[v].selectedPlayers = <<>>
                     /\ view[v].writes = <<>>
                     /\ view'[v] # view[v] => StoreAnswers(v)
            /\ (view[v].pc # "unmounted" /\ view[v].loading /\ ~view'[v].loading)
                  => /\ StoreAnswers(v)
                     /\ view'[v].pc \in {"ready", "error"}
            /\ (view[v].pc # "unmounted" /\ ~view[v].loading)
                  => /\ view[v].pc \in {"ready", "error"}
                     /\ (view[v].error # "null") # Rendered(v)]_vars
    /\ \A v \in {1} :
          (view[v].pc # "unmounted" /\ view[v].loading) ~> ~view[v].loading

\* C21 witness: after the store answered the three calls of its load, the view
\* has left loading and shows the editing view with the players on offer.
C21_Witness ==
    /\ view[1].pc = "ready"
    /\ ~view[1].loading
    /\ view[1].error = "null"
    /\ Rendered(1)
    /\ view[1].availablePlayers # <<>>
    /\ view[1].existingPredictionId = NoId

\* C22: a save stores, under the Target of the match in the selector, the kind
\* and threshold of that match and not those of the match the editor was
\* opened on. The editor of the model never retypes kind or threshold, so the
\* entry a save stores for the selected match has the kind and threshold that
\* match has in the player being edited (or the defaults when it has none),
\* and an outcome only if that match had one or the administrator entered one.
C22_SaveUsesEditedMatch ==
    [][(/\ admin.editingPlayer.id # NoId
        /\ admin'.editingPlayer.id = NoId
        /\ players' # players)
       => LET ep == admin.editingPlayer
              sm == admin.selectedMatch
              saved == players'[ep.id].matchTargets[sm]
          IN  IF sm \in DOMAIN ep.matchTargets
              THEN /\ saved.type = ep.matchTargets[sm].type
                   /\ saved.target = ep.matchTargets[sm].target
              ELSE /\ saved.type = (IF ep.role = "bowler" THEN "wickets" ELSE "runs")
                   /\ saved.target = 0]_vars

IsSave == admin.editingPlayer.id # NoId /\ admin'.editingPlayer.id = NoId
              /\ admin'.fetchingPlayers /\ players' # players

\* C24: a save stores the Target of the selected match with the eligibility
\* flag set; no save turns a stored flag from set to cleared, for any match:
\* only a toggle does; and a toggle stores, for the selected match, the
\* opposite of the flag in the loaded copy of the row's player (set, when the
\* copy has no Target for the match).
C24_SaveSetsFlagToggleFlips ==
    [][/\ IsSave
            => players'[admin.editingPlayer.id]
                  .matchTargets[admin.selectedMatch].isSelected
       /\ \A p \in DOMAIN players \cap DOMAIN players' :
            \A m \in DOMAIN players[p].matchTargets \cap DOMAIN players'[p].matchTargets :
                (players[p].matchTargets[m].isSelected
                 /\ ~players'[p].matchTargets[m].isSelected)
                => ~IsSave
       /\ \A p \in DOMAIN players \cap DOMAIN players' :
            (players'[p] # players[p] /\ ~IsSave)
            => LET sm == admin.selectedMatch
                   pl == admin.players[p]
               IN  players'[p].matchTargets[sm].isSelected
                      = (IF sm \in DOMAIN pl.matchTargets
                         THEN ~pl.matchTargets[sm].isSelected
                         ELSE TRUE)]_vars
====
